---- MODULE Spec2Model ----
(***************************************************************************)
(* Monte Carlo stock simulation: the fixed-parameter script                *)
(* (monte_carlo_engine.py) and the interactive run_simulation()            *)
(* (monte_carlo_v2.py), with the numpy reductions they call.               *)
(*                                                                         *)
(* Numbers.  A Python float is modelled by an exact rational <<n, d>> in   *)
(* lowest terms with d > 0; NaN is <<0, 0>>; a name not yet bound is       *)
(* None.  np.sqrt is exact on squares of rationals and rounds down to the  *)
(* grid of 1/SqrtGrid elsewhere.  np.exp is taken to the base 2 (the unit  *)
(* of log-return is ln 2) and rounds its argument down to an integer, so   *)
(* that every price stays rational.  The log-returns and their running     *)
(* sums are exact.                                                         *)
(***************************************************************************)
EXTENDS Integers, Sequences, FiniteSets, TLC

VARIABLES
  variant,         \* "engine" | "v2" | "analyzer" (the reductions on their own)
  pc,              \* position in the script / in run_simulation
  typed,           \* the lines typed at the prompts so far (v2)
  out,             \* what has been written to the console, in order
  S0, mu, sigma, T, sims,
  days, dt,
  Z,               \* the normal draws, days rows of sims columns; None before
  cum_returns,     \* np.cumsum(daily_log_returns, axis=0)
  stock_paths,     \* the price matrix, a sequence of rows; None before
  final_prices,
  expected_price,  \* np.mean(final_prices)
  min_price, max_price,
  cutoff_price,    \* v2: np.percentile(final_prices, 5)
  VaR,             \* v2: S0 - cutoff_price
  VaR_95,          \* engine: np.percentile(future_prices, 5)
  q,               \* the percentile asked of np.percentile
  report,          \* the values handed to the report's format fields
  charts,          \* number of figures shown
  error,           \* the exception that ended the run, "" if none
  exit_status      \* -1 while running, then the interpreter's exit status

vars == <<variant, pc, typed, out, S0, mu, sigma, T, sims, days, dt, Z,
          cum_returns, stock_paths, final_prices, expected_price, min_price,
          max_price, cutoff_price, VaR, VaR_95, q, report, charts, error,
          exit_status>>

None == <<>>
NaN  == <<0, 0>>

----------------------------------------------------------------------------
(* Bounds of the model *)

MaxSims    == 3   \* the path counts typed at the last prompt are -1..MaxSims
EngineDays == 2   \* stands for days = 252 of the fixed-parameter script
EngineSims == 2   \* stands for sims = 1000 of the fixed-parameter script
MaxN       == 5   \* largest terminal price set handed to the analyzer alone
SqrtGrid   == 16  \* np.sqrt rounds down to multiples of 1/SqrtGrid

----------------------------------------------------------------------------
(* Rational arithmetic *)

Abs(n) == IF n < 0 THEN -n ELSE n

RECURSIVE GCD(_, _)
GCD(a, b) == IF b = 0 THEN a ELSE GCD(b, a % b)

RNorm(n, d) ==
  LET g == GCD(Abs(n), Abs(d))
      s == IF d < 0 THEN -1 ELSE 1
  IN  <<(s * n) \div g, (s * d) \div g>>

R(n) == <<n, 1>>
IsNaN(x) == x = NaN
\* sums and products cancel common factors before they multiply
RAdd(x, y) ==
  IF IsNaN(x) \/ IsNaN(y) THEN NaN
  ELSE LET g == GCD(x[2], y[2])
       IN  RNorm(x[1] * (y[2] \div g) + y[1] * (x[2] \div g),
                 (x[2] \div g) * y[2])
RNeg(x) == IF IsNaN(x) THEN NaN ELSE <<-x[1], x[2]>>
RSub(x, y) == RAdd(x, RNeg(y))
RMul(x, y) ==
  IF IsNaN(x) \/ IsNaN(y) THEN NaN
  ELSE LET a == RNorm(x[1], y[2])
           b == RNorm(y[1], x[2])
       IN  RNorm(a[1] * b[1], a[2] * b[2])
RDiv(x, y) == RMul(x, RNorm(y[2], y[1]))           \* y is not zero
RLess(x, y) == RSub(x, y)[1] < 0
RLeq(x, y)  == RSub(x, y)[1] <= 0
RFloor(x) == x[1] \div x[2]

RECURSIVE Pow2(_)
Pow2(k) == IF k = 0 THEN 1 ELSE 2 * Pow2(k - 1)

ISqrt(k) == CHOOSE s \in 0..k : s * s <= k /\ (s + 1) * (s + 1) > k
IsSquare(k) == ISqrt(k) * ISqrt(k) = k

----------------------------------------------------------------------------
(* The Python and numpy functions the two scripts call *)

\* round(x): to the nearest integer, halves to the even one
py_round(x) ==
  LET f == RFloor(x)
      r == RSub(x, R(f))
  IN  IF RLess(r, <<1, 2>>) THEN f
      ELSE IF RLess(<<1, 2>>, r) THEN f + 1
      ELSE IF f % 2 = 0 THEN f ELSE f + 1

\* int(x): truncation toward zero
py_int(x) == IF x[1] >= 0 THEN x[1] \div x[2] ELSE -((-x[1]) \div x[2])

\* np.sqrt(x), x >= 0
np_sqrt(x) ==
  IF IsSquare(x[1]) /\ IsSquare(x[2])
    THEN RNorm(ISqrt(x[1]), ISqrt(x[2]))
    ELSE RNorm(ISqrt((x[1] * SqrtGrid * SqrtGrid) \div x[2]), SqrtGrid)

\* np.exp(x), to the base 2 and on the integer grid
np_exp(x) ==
  LET k == RFloor(x)
  IN  IF k >= 0 THEN <<Pow2(k), 1>> ELSE <<1, Pow2(-k)>>

\* np.random.normal(0, 1, (rows, cols)): the matrices that may be drawn
ZVals == {-1, 1}
NormalDraws(rows, cols) == [1..rows -> [1..cols -> ZVals]]

\* drift_daily = (mu - 0.5 * sigma**2) * dt
drift_daily(mu_, sigma_, dt_) ==
  RMul(RSub(mu_, RMul(<<1, 2>>, RMul(sigma_, sigma_))), dt_)

\* shock_daily = sigma * np.sqrt(dt) * Z
shock_daily(sigma_, dt_, Z_) ==
  [t \in 1..Len(Z_) |->
     [p \in 1..Len(Z_[t]) |-> RMul(RMul(sigma_, np_sqrt(dt_)), R(Z_[t][p]))]]

\* daily_log_returns = drift_daily + shock_daily (the scalar is broadcast)
daily_log_returns(mu_, sigma_, dt_, Z_) ==
  LET sh == shock_daily(sigma_, dt_, Z_)
  IN  [t \in 1..Len(sh) |->
         [p \in 1..Len(sh[t]) |-> RAdd(drift_daily(mu_, sigma_, dt_), sh[t][p])]]

\* row t of np.cumsum(m, axis=0): the running sum down each column
RECURSIVE CumRow(_, _)
CumRow(m, t) ==
  IF t = 1 THEN m[1]
  ELSE LET prev == CumRow(m, t - 1)
       IN  [p \in 1..Len(m[t]) |-> RAdd(prev[p], m[t][p])]

\* the running sum along each row instead (axis=1)
RECURSIVE RowPrefix(_, _)
RowPrefix(row, p) == IF p = 1 THEN row[1] ELSE RAdd(RowPrefix(row, p - 1), row[p])
np_cumsum_axis1(m) ==
  [t \in 1..Len(m) |-> [p \in 1..Len(m[t]) |-> RowPrefix(m[t], p)]]

np_cumsum(m) == [t \in 1..Len(m) |-> CumRow(m, t)]

\* S0 * np.exp(cum_returns)
PricesOf(S0_, cum) ==
  [t \in 1..Len(cum) |-> [p \in 1..Len(cum[t]) |-> RMul(S0_, np_exp(cum[t][p]))]]

\* np.full((1, sims), S0)
np_full(cols, v) == << [p \in 1..cols |-> v] >>

\* np.vstack([a, b]) without the first block
np_vstack_dropped(a, b) == b

\* np.vstack([a, b])
np_vstack(a, b) == a \o b

----------------------------------------------------------------------------
(* The reductions of the terminal prices *)

RECURSIVE SumSeq(_, _)
SumSeq(a, n) == IF n = 0 THEN R(0) ELSE RAdd(SumSeq(a, n - 1), a[n])

\* np.mean(a): NaN (with a warning) for an empty array
np_mean(a) == IF Len(a) = 0 THEN NaN ELSE RDiv(SumSeq(a, Len(a)), R(Len(a)))

RECURSIVE MinSeq(_, _)
MinSeq(a, n) ==
  IF n = 1 THEN a[1]
  ELSE LET m == MinSeq(a, n - 1) IN IF RLess(a[n], m) THEN a[n] ELSE m
RECURSIVE MaxSeq(_, _)
MaxSeq(a, n) ==
  IF n = 1 THEN a[1]
  ELSE LET m == MaxSeq(a, n - 1) IN IF RLess(m, a[n]) THEN a[n] ELSE m

np_min(a) == MinSeq(a, Len(a))
np_max(a) == MaxSeq(a, Len(a))

\* ascending sort, by insertion
RECURSIVE Insert(_, _)
Insert(srt, x) ==
  IF srt = <<>> THEN <<x>>
  ELSE IF RLeq(x, Head(srt)) THEN <<x>> \o srt
  ELSE <<Head(srt)>> \o Insert(Tail(srt), x)
RECURSIVE SortedUpTo(_, _)
SortedUpTo(a, n) == IF n = 0 THEN <<>> ELSE Insert(SortedUpTo(a, n - 1), a[n])
Sorted(a) == SortedUpTo(a, Len(a))

\* numpy's _lerp(a, b, t): a + (b - a) * t, taken from the b side for t >= 1/2
np_lerp(a, b, t) ==
  LET diff == RSub(b, a)
  IN  IF RLeq(<<1, 2>>, t)
        THEN RSub(b, RMul(diff, RSub(R(1), t)))
        ELSE RAdd(a, RMul(diff, t))

\* the percentile taken at the order statistic just below the rank (no
\* interpolation)
np_percentile_lower(a, c) ==
  LET n   == Len(a)
      prv == RFloor(RMul(R(n - 1), <<c, 100>>))
  IN  Sorted(a)[prv + 1]

\* np.percentile(a, c), method "linear", for a non-empty a and 0 <= c <= 100:
\* virtual index (n - 1) * c / 100, its floor and the index after it (clipped
\* to the last), and the interpolation between the two order statistics
np_percentile(a, c) ==
  LET n     == Len(a)
      srt   == Sorted(a)
      vi    == RMul(R(n - 1), <<c, 100>>)
      prv   == RFloor(vi)
      nxt   == IF prv + 1 > n - 1 THEN n - 1 ELSE prv + 1
      gamma == RSub(vi, R(prv))
  IN  np_lerp(srt[prv + 1], srt[nxt + 1], gamma)

----------------------------------------------------------------------------
(* What may be typed at the five prompts.  A line is an integer literal,   *)
(* a decimal literal or other text; float() takes the first two, int()     *)
(* only the first.                                                         *)

IntLine(n)    == [kind |-> "int", val |-> R(n)]
DecLine(n, d) == [kind |-> "dec", val |-> RNorm(n, d)]
TextLine      == [kind |-> "text", val |-> None]

S0Lines    == {IntLine(100), IntLine(0), TextLine}
muLines    == {DecLine(1, 10), IntLine(378), TextLine}
sigmaLines == {IntLine(16), IntLine(0), DecLine(-1, 10), TextLine}
\* 0.004, 0.008, 0.007, 0.002, 0, -0.004, -0.008 years
TLines     == {DecLine(4, 1000), DecLine(8, 1000), DecLine(7, 1000),
               DecLine(2, 1000), IntLine(0), DecLine(-4, 1000),
               DecLine(-8, 1000), TextLine}
simsLines  == {IntLine(n) : n \in -1..MaxSims} \cup {DecLine(5, 2), TextLine}

\* float(line) and int(line) raise ValueError on what they cannot parse
float_raises(line) == line.kind = "text"
int_raises(line)   == line.kind # "int"
py_float(line)     == line.val
py_int_of(line)    == line.val[1]

----------------------------------------------------------------------------
(* Shared pieces of the actions *)

TradingDaysPerYear == 252
ConfidenceLevel    == 5

NoReport == [start |-> None, expected |-> None, minimum |-> None,
             maximum |-> None, floor |-> None, valueAtRisk |-> None]

params == <<S0, mu, sigma, T, sims>>
sim    == <<days, dt, Z, cum_returns, stock_paths>>
stats  == <<final_prices, expected_price, min_price, max_price, cutoff_price,
            VaR, VaR_95, q>>

\* an exception nothing catches: traceback, exit status 1
Crash(exc) ==
  /\ pc' = "crashed"
  /\ error' = exc
  /\ exit_status' = 1
  /\ out' = Append(out, "Traceback")

\* a handler that asks the same prompt again
RetryValueError(at, prompt) ==
  /\ pc' = at
  /\ out' = out \o <<prompt, "Error: Please enter numbers only.">>
  /\ error' = "ValueError"
  /\ exit_status' = exit_status

\* except ValueError: print the message and return; the script then ends
ExceptValueError(at, prompt) ==
  /\ pc' = "returned"
  /\ out' = out \o <<prompt, "Error: Please enter numbers only.">>
  /\ error' = "ValueError"
  /\ exit_status' = 0

\* the line parsed: on to the next statement
Parsed(next, prompt) ==
  /\ pc' = next
  /\ out' = Append(out, prompt)
  /\ UNCHANGED <<error, exit_status>>

----------------------------------------------------------------------------
(* monte_carlo_v2.py: run_simulation() *)

Start ==
  /\ variant = "v2" /\ pc = "start"
  /\ out' = out \o <<"banner", "Please enter the simulation parameters:">>
  /\ pc' = "ask_S0"
  /\ UNCHANGED <<variant, typed, params, sim, stats, report, charts, error,
                 exit_status>>

Ask_S0 ==
  /\ pc = "ask_S0"
  /\ \E line \in S0Lines :
       /\ typed' = Append(typed, line)
       /\ IF float_raises(line)
            THEN ExceptValueError("ask_S0", "prompt_S0") /\ UNCHANGED S0
            ELSE Parsed("ask_mu", "prompt_S0") /\ S0' = py_float(line)
  /\ UNCHANGED <<variant, mu, sigma, T, sims, sim, stats, report, charts>>

Ask_mu ==
  /\ pc = "ask_mu"
  /\ \E line \in muLines :
       /\ typed' = Append(typed, line)
       /\ IF float_raises(line)
            THEN ExceptValueError("ask_mu", "prompt_mu") /\ UNCHANGED mu
            ELSE Parsed("ask_sigma", "prompt_mu") /\ mu' = py_float(line)
  /\ UNCHANGED <<variant, S0, sigma, T, sims, sim, stats, report, charts>>

Ask_sigma ==
  /\ pc = "ask_sigma"
  /\ \E line \in sigmaLines :
       /\ typed' = Append(typed, line)
       /\ IF float_raises(line)
            THEN ExceptValueError("ask_sigma", "prompt_sigma") /\ UNCHANGED sigma
            ELSE Parsed("ask_T", "prompt_sigma") /\ sigma' = py_float(line)
  /\ UNCHANGED <<variant, S0, mu, T, sims, sim, stats, report, charts>>

Ask_T ==
  /\ pc = "ask_T"
  /\ \E line \in TLines :
       /\ typed' = Append(typed, line)
       /\ IF float_raises(line)
            THEN ExceptValueError("ask_T", "prompt_T") /\ UNCHANGED T
            ELSE Parsed("ask_sims", "prompt_T") /\ T' = py_float(line)
  /\ UNCHANGED <<variant, S0, mu, sigma, sims, sim, stats, report, charts>>

Ask_sims ==
  /\ pc = "ask_sims"
  /\ \E line \in simsLines :
       /\ typed' = Append(typed, line)
       /\ IF int_raises(line)
            THEN ExceptValueError("ask_sims", "prompt_sims") /\ UNCHANGED sims
            ELSE Parsed("setup", "prompt_sims") /\ sims' = py_int_of(line)
  /\ UNCHANGED <<variant, S0, mu, sigma, T, sim, stats, report, charts>>

\* days = int(T * 252); dt = T / days; print("Running ...")
Setup ==
  /\ pc = "setup"
  /\ days' = py_int(RMul(T, R(TradingDaysPerYear)))
  /\ IF days' = 0
       THEN Crash("ZeroDivisionError") /\ UNCHANGED dt
       ELSE /\ dt' = RDiv(T, R(days'))
            /\ out' = Append(out, "Running")
            /\ pc' = "engine"
            /\ UNCHANGED <<error, exit_status>>
  /\ UNCHANGED <<variant, typed, params, Z, cum_returns, stock_paths, stats,
                 report, charts>>

\* the price matrix from the draws: lines 28-39 of run_simulation and
\* lines 21-44 of the script
PathsFrom(S0_, mu_, sigma_, dt_, Z_, cols) ==
  np_vstack(np_full(cols, S0_),
            PricesOf(S0_, np_cumsum(daily_log_returns(mu_, sigma_, dt_, Z_))))

\* --- 2. THE ENGINE
Engine ==
  /\ pc = "engine"
  /\ IF days + 1 < 0 \/ sims < 0
       THEN \* np.zeros((days + 1, sims)): negative dimensions
            Crash("ValueError") /\ UNCHANGED <<Z, cum_returns, stock_paths>>
       ELSE IF days + 1 = 0
       THEN \* stock_prices[0] = S0 on a matrix of no rows
            Crash("IndexError") /\ UNCHANGED <<Z, cum_returns, stock_paths>>
       ELSE /\ Z' \in NormalDraws(days, sims)
            /\ cum_returns' = np_cumsum(daily_log_returns(mu, sigma, dt, Z'))
            /\ stock_paths' = PathsFrom(S0, mu, sigma, dt, Z', sims)
            /\ pc' = "analysis"
            /\ UNCHANGED <<out, error, exit_status>>
  /\ UNCHANGED <<variant, typed, params, days, dt, stats, report, charts>>

\* --- 3. ANALYSIS
Analysis ==
  /\ pc = "analysis"
  /\ final_prices' = stock_paths[Len(stock_paths)]
  /\ expected_price' = np_mean(final_prices')
  /\ q' = ConfidenceLevel
  /\ IF Len(final_prices') = 0
       THEN \* np.percentile of an empty array: IndexError or NaN, by the
            \* numpy release
            \/ Crash("IndexError") /\ UNCHANGED <<cutoff_price, VaR>>
            \/ /\ cutoff_price' = NaN
               /\ VaR' = RSub(S0, NaN)
               /\ pc' = "report"
               /\ UNCHANGED <<out, error, exit_status>>
       ELSE /\ cutoff_price' = np_percentile(final_prices', q')
            /\ VaR' = RSub(S0, cutoff_price')
            /\ pc' = "report"
            /\ UNCHANGED <<out, error, exit_status>>
  /\ UNCHANGED <<variant, typed, params, sim, min_price, max_price, VaR_95,
                 report, charts>>

\* --- 4. PROFESSIONAL OUTPUT
Report ==
  /\ pc = "report"
  /\ out' = Append(out, "RESULTS REPORT")
  /\ report' = [NoReport EXCEPT !.start = S0, !.expected = expected_price,
                                !.floor = cutoff_price, !.valueAtRisk = VaR]
  /\ pc' = "visualize"
  /\ UNCHANGED <<variant, typed, params, sim, stats, charts, error, exit_status>>

\* --- 5. VISUALIZATION: one figure, then the script ends
Visualize ==
  /\ pc = "visualize"
  /\ charts' = charts + 1
  /\ pc' = "done"
  /\ exit_status' = 0
  /\ UNCHANGED <<variant, typed, out, params, sim, stats, report, error>>

----------------------------------------------------------------------------
(* monte_carlo_engine.py: the fixed-parameter script *)

FixedS0    == 100
FixedMu    == <<1, 10>>
FixedSigma == <<1, 5>>
FixedT     == 1

\* --- 1, 2: dt = T / days and the vectorized simulation
E_Simulate ==
  /\ variant = "engine" /\ pc = "e_sim"
  /\ dt' = RDiv(T, R(days))
  /\ Z' \in NormalDraws(days, sims)
  /\ cum_returns' = np_cumsum(daily_log_returns(mu, sigma, dt', Z'))
  /\ stock_paths' = PathsFrom(S0, mu, sigma, dt', Z', sims)
  /\ pc' = "e_plot"
  /\ UNCHANGED <<variant, typed, out, params, days, stats, report, charts,
                 error, exit_status>>

\* --- 3. VISUALIZATION
E_Plot ==
  /\ pc = "e_plot"
  /\ charts' = charts + 1
  /\ pc' = "e_stats"
  /\ UNCHANGED <<variant, typed, out, params, sim, stats, report, error,
                 exit_status>>

\* --- 4. STATISTICS
E_Stats ==
  /\ pc = "e_stats"
  /\ final_prices' = stock_paths[Len(stock_paths)]
  /\ expected_price' = np_mean(final_prices')
  /\ min_price' = np_min(final_prices')
  /\ max_price' = np_max(final_prices')
  /\ out' = Append(out, "RESULTS")
  /\ report' = [report EXCEPT !.expected = expected_price',
                              !.minimum = min_price', !.maximum = max_price']
  /\ pc' = "e_var"
  /\ UNCHANGED <<variant, typed, params, sim, cutoff_price, VaR, VaR_95, q,
                 charts, error, exit_status>>

\* --- 5. VALUE AT RISK (VaR): the percentile itself is printed as the VaR
\* and as the level the price will not fall below
E_VaR ==
  /\ pc = "e_var"
  /\ q' = ConfidenceLevel
  /\ VaR_95' = np_percentile(stock_paths[Len(stock_paths)], q')
  /\ out' = Append(out, "RISK METRICS")
  /\ report' = [report EXCEPT !.floor = VaR_95', !.valueAtRisk = VaR_95']
  /\ pc' = "e_hist"
  /\ UNCHANGED <<variant, typed, params, sim, final_prices, expected_price,
                 min_price, max_price, cutoff_price, VaR, charts, error,
                 exit_status>>

\* the histogram, then the script ends
E_Hist ==
  /\ pc = "e_hist"
  /\ charts' = charts + 1
  /\ pc' = "done"
  /\ exit_status' = 0
  /\ UNCHANGED <<variant, typed, out, params, sim, stats, report, error>>

----------------------------------------------------------------------------
(* The two programs *)

Blank ==
  /\ typed = <<>> /\ out = <<>>
  /\ dt = None /\ Z = None /\ cum_returns = None /\ stock_paths = None
  /\ final_prices = None /\ expected_price = None
  /\ min_price = None /\ max_price = None
  /\ cutoff_price = None /\ VaR = None /\ VaR_95 = None
  /\ report = NoReport /\ charts = 0 /\ error = "" /\ exit_status = -1

InitEngine ==
  /\ variant = "engine" /\ pc = "e_sim"
  /\ S0 = R(FixedS0) /\ mu = FixedMu /\ sigma = FixedSigma /\ T = R(FixedT)
  /\ days = EngineDays /\ sims = EngineSims
  /\ q = 0
  /\ Blank

InitV2 ==
  /\ variant = "v2" /\ pc = "start"
  /\ S0 = None /\ mu = None /\ sigma = None /\ T = None
  /\ sims = 0 /\ days = 0
  /\ q = 0
  /\ Blank

Init == InitEngine \/ InitV2

Next ==
  \/ Start \/ Ask_S0 \/ Ask_mu \/ Ask_sigma \/ Ask_T \/ Ask_sims
  \/ Setup \/ Engine \/ Analysis \/ Report \/ Visualize
  \/ E_Simulate \/ E_Plot \/ E_Stats \/ E_VaR \/ E_Hist

Spec == Init /\ [][Next]_vars

----------------------------------------------------------------------------
(* The reductions on their own: any non-empty terminal price set and any   *)
(* confidence level, then the four reductions applied to it                *)

PriceVals == {10, 20, 30, 40, 50}
Levels    == {5, 25, 50, 95}
PriceSets == UNION {[1..n -> {R(v) : v \in PriceVals}] : n \in 1..MaxN}

InitAnalyzer ==
  /\ variant = "analyzer" /\ pc = "a_input"
  /\ S0 = None /\ mu = None /\ sigma = None /\ T = None
  /\ sims = 0 /\ days = 0
  /\ final_prices \in PriceSets
  /\ q \in Levels
  /\ typed = <<>> /\ out = <<>>
  /\ dt = None /\ Z = None /\ cum_returns = None /\ stock_paths = None
  /\ expected_price = None /\ min_price = None /\ max_price = None
  /\ cutoff_price = None /\ VaR = None /\ VaR_95 = None
  /\ report = NoReport /\ charts = 0 /\ error = "" /\ exit_status = -1

A_Reduce ==
  /\ variant = "analyzer" /\ pc = "a_input"
  /\ expected_price' = np_mean(final_prices)
  /\ min_price' = np_min(final_prices)
  /\ max_price' = np_max(final_prices)
  /\ cutoff_price' = np_percentile(final_prices, q)
  /\ pc' = "a_done"
  /\ UNCHANGED <<variant, typed, out, params, sim, final_prices, VaR, VaR_95,
                 q, report, charts, error, exit_status>>

NextAnalyzer == A_Reduce

SpecAnalyzer == InitAnalyzer /\ [][NextAnalyzer]_vars

----------------------------------------------------------------------------
(* Vocabulary of the properties *)

Terminal  == pc \in {"done", "returned", "crashed"}
AllParsed == Len(typed) = 5 /\ error # "ValueError"
ErrorText == "Error: Please enter numbers only."

PromptOrder == <<"prompt_S0", "prompt_mu", "prompt_sigma", "prompt_T",
                 "prompt_sims">>
IsPrompt(e) == \E i \in 1..Len(PromptOrder) : PromptOrder[i] = e
IsErrorText(e) == e = ErrorText

\* the claim's per-step log-return and its sum over steps 1..t of path p
LogReturn(k, p) ==
  RAdd(RMul(RSub(mu, RMul(<<1, 2>>, RMul(sigma, sigma))), dt),
       RMul(RMul(sigma, np_sqrt(dt)), R(Z[k][p])))
RECURSIVE SumLogReturn(_, _)
SumLogReturn(t, p) ==
  IF t = 0 THEN R(0) ELSE RAdd(LogReturn(t, p), SumLogReturn(t - 1, p))

----------------------------------------------------------------------------
\* C1: whenever a price matrix has been built (so in every run that
\* completes, of either variant), it has one row more than the draws have
\* time steps, these being days many, every row has sims columns, and
\* every entry of the first row is S0.
C1_MatrixShape ==
  stock_paths # None =>
    /\ Len(Z) = days
    /\ Len(stock_paths) = Len(Z) + 1
    /\ \A t \in 1..Len(stock_paths) : Len(stock_paths[t]) = sims
    /\ \A p \in 1..sims : stock_paths[1][p] = S0

C1_Witness ==
  /\ pc = "done" /\ variant = "v2" /\ days = 2 /\ sims = 3
  /\ Len(stock_paths) = 3 /\ stock_paths[3][1] # S0

\* C2: for every step t and path p the entry one row below step t is
\* S0 * exp(sum of the log-returns of path p over the steps up to t), the
\* log-return of a step being (mu - sigma^2/2)*dt + sigma*sqrt(dt)*Z; the
\* cumulative log-return of path p advances by exactly that step's
\* log-return, so it reads no draw of another path or of a later step.
C2_PathFormula ==
  stock_paths # None =>
    \A t \in 1..days : \A p \in 1..sims :
      /\ stock_paths[t + 1][p] = RMul(S0, np_exp(SumLogReturn(t, p)))
      /\ cum_returns[t][p] = SumLogReturn(t, p)
      /\ RSub(cum_returns[t][p],
              IF t = 1 THEN R(0) ELSE cum_returns[t - 1][p]) = LogReturn(t, p)

C2_Witness ==
  /\ stock_paths # None /\ days = 2 /\ sims >= 2 /\ sigma = R(16)
  /\ Z[1][1] # Z[1][2] /\ Z[1][1] # Z[2][1]
  /\ stock_paths[3][1] # stock_paths[3][2]
  /\ stock_paths[3][1] # stock_paths[2][1]

\* C3: once the five values are read, if any of them is out of its domain
\* (S0 <= 0, sims < 1, T <= 0, sigma < 0; stepsPerYear is the fixed 252) then
\* no variate is drawn, no matrix is built, no report is produced, and the
\* run ends with InvalidParameter.
InvalidParameters ==
  \/ RLeq(S0, R(0)) \/ sims < 1 \/ RLeq(T, R(0)) \/ RLess(sigma, R(0))

C3_RejectedBeforeWork ==
  (variant = "v2" /\ AllParsed /\ InvalidParameters) =>
    /\ Z = None /\ stock_paths = None /\ report = NoReport
    /\ Terminal => error = "InvalidParameter"

\* C4: whenever a Value-at-Risk has been reported for a non-empty set of
\* terminal prices, it is S0 minus the 5th percentile of the terminal
\* prices, also when that difference is negative.
C4_VaRIsLoss ==
  (report.valueAtRisk # None /\ sims >= 1) =>
    report.valueAtRisk =
      RSub(S0, np_percentile(stock_paths[Len(stock_paths)], ConfidenceLevel))

\* C5: the prompts are issued in the fixed order, one per line typed; once
\* a non-numeric line has been typed at a prompt, that prompt is the last
\* one issued and is issued once, the run has returned, the error message
\* is the last thing written and is written once, and there is no draw, no
\* matrix, no report and no chart.
C5_ParseFailureAborts ==
  variant = "v2" =>
    /\ SelectSeq(out, IsPrompt) = SubSeq(PromptOrder, 1, Len(typed))
    /\ \A i \in 1..Len(typed) :
         typed[i].kind = "text" =>
           /\ Len(typed) = i
           /\ pc = "returned"
           /\ Len(SelectSeq(out, IsErrorText)) = 1
           /\ out[Len(out)] = ErrorText
           /\ Z = None /\ stock_paths = None /\ final_prices = None
           /\ report = NoReport /\ charts = 0

C5_Witness ==
  /\ variant = "v2" /\ Len(typed) = 3 /\ typed[3].kind = "text"
  /\ pc = "returned" /\ out[Len(out)] = ErrorText

\* C6: a run that has ended has either a price matrix and a report whose
\* statistics are all defined, or no matrix and no report.
Defined(x) == x # None /\ x # NaN
ReportFull ==
  /\ Defined(report.expected) /\ Defined(report.floor)
  /\ Defined(report.valueAtRisk)
  /\ variant = "v2" => Defined(report.start)

C6_AllOrNothing ==
  Terminal =>
    \/ stock_paths # None /\ ReportFull
    \/ stock_paths = None /\ report = NoReport

\* C7: a run that ended in a failure has written a message and has a
\* non-zero exit status.
C7_FailureExitsNonZero ==
  (Terminal /\ error # "") =>
    /\ exit_status # 0
    /\ out[Len(out)] \in {ErrorText, "Traceback"}

\* C8 as stated: where a step length exists for valid parameters, the
\* number of steps is round(T * 252), and days * dt = T.
C8_StepsRounded ==
  (variant = "v2" /\ dt # None /\ ~InvalidParameters) =>
    /\ days = py_round(RMul(T, R(TradingDaysPerYear)))
    /\ RMul(R(days), dt) = T

\* C8 amended: for a positive horizon the number of steps is T * 252
\* truncated (days <= T * 252 < days + 1); the step length exists exactly
\* when that is at least 1, and then days * dt = T.  In the fixed-parameter
\* script days * dt = T as well.
C8_StepsTruncated ==
  /\ (variant = "v2" /\ AllParsed /\ pc # "setup" /\ RLess(R(0), T)) =>
       /\ RLeq(R(days), RMul(T, R(TradingDaysPerYear)))
       /\ RLess(RMul(T, R(TradingDaysPerYear)), R(days + 1))
       /\ dt = None <=> days = 0
       /\ dt # None => RMul(R(days), dt) = T
  /\ (variant = "engine" /\ dt # None) => RMul(R(days), dt) = T

C8_Witness ==
  /\ variant = "v2" /\ T = <<7, 1000>> /\ days = 1 /\ dt = <<7, 1000>>
  /\ py_round(RMul(T, R(TradingDaysPerYear))) = 2

\* C9: a run with a positive horizon (and the other parameters in their
\* domains) whose number of steps came out 0 ends with InvalidParameter.
C9_ZeroStepsRejected ==
  (variant = "v2" /\ AllParsed /\ Terminal /\ ~InvalidParameters /\ days = 0) =>
    error = "InvalidParameter"

----------------------------------------------------------------------------
(* The claim's percentile: order statistics by rank, floor and ceiling *)

\* the k-th smallest (k from 0) of the multiset a, by counting
OrderStat(a, k) ==
  CHOOSE v \in {a[i] : i \in 1..Len(a)} :
    /\ Cardinality({i \in 1..Len(a) : RLess(a[i], v)}) <= k
    /\ k < Cardinality({i \in 1..Len(a) : RLeq(a[i], v)})

RCeil(x) == -((-x[1]) \div x[2])

ClaimPercentile(a, c) ==
  LET r  == RMul(<<c, 100>>, R(Len(a) - 1))
      lo == OrderStat(a, RFloor(r))
      hi == OrderStat(a, RCeil(r))
  IN  RAdd(lo, RMul(RSub(r, R(RFloor(r))), RSub(hi, lo)))

\* C10: the percentile of a non-empty set is the interpolation between the
\* order statistics at floor(r) and ceil(r), r = (c/100)*(n-1); it is 30 at
\* c = 50 and 20 at c = 25 for {10, 20, 30, 40, 50} in any order; for a
\* single element the percentile, mean, min and max are that element.
C10_LinearPercentile ==
  (variant = "analyzer" /\ pc = "a_done") =>
    /\ cutoff_price = ClaimPercentile(final_prices, q)
    /\ (Len(final_prices) = 5
        /\ {final_prices[i] : i \in 1..5} = {R(v) : v \in PriceVals}) =>
          /\ q = 50 => cutoff_price = R(30)
          /\ q = 25 => cutoff_price = R(20)
    /\ Len(final_prices) = 1 =>
          /\ cutoff_price = final_prices[1]
          /\ expected_price = final_prices[1]
          /\ min_price = final_prices[1]
          /\ max_price = final_prices[1]

C10_Witness ==
  /\ variant = "analyzer" /\ pc = "a_done" /\ q = 25
  /\ final_prices = <<R(30), R(10), R(50), R(20), R(40)>>
  /\ cutoff_price = R(20)

====
